---------------------------- MODULE Spec2Model ----------------------------
(***************************************************************************)
(* Model of the tool-orchestration clients of the repository:              *)
(*   src/multi_client.py    MCPClient for several tool providers           *)
(*   src/weather_client.py  MCPClient for one tool provider                *)
(* The variable `client` says which of the two programs runs; `driver`     *)
(* says who calls the client's methods: the program's own main(), or a     *)
(* caller that invokes connect_to_server and cleanup of MCPClient directly.*)
(* Each step is the code between two suspension points (awaits) or         *)
(* blocking calls.  The transport, the session and the model backend are   *)
(* external: each call on them either returns or raises.                   *)
(***************************************************************************)
EXTENDS Naturals, Sequences, FiniteSets, TLC

\* ------------------------------------------------------------------ bounds
MaxTurns == 2       \* model-backend calls per process_query that the model follows
MaxQueries == 1     \* queries read by chat_loop / issued by the direct caller
MaxConnects == 2    \* connections opened over the life of one client
MaxCleanups == 2    \* cleanup() calls made by the direct caller

\* ------------------------------------------------------------- characters
Lower(c) ==
    CASE c = "Q" -> "q"
      [] c = "U" -> "u"
      [] c = "I" -> "i"
      [] c = "T" -> "t"
      [] OTHER -> c

LowerSeq(s) == [i \in 1..Len(s) |-> Lower(s[i])]

IsSpace(c) == c = " "

RECURSIVE LStrip(_)
LStrip(s) == IF s # <<>> /\ IsSpace(Head(s)) THEN LStrip(Tail(s)) ELSE s

RECURSIVE RStrip(_)
RStrip(s) ==
    IF s # <<>> /\ IsSpace(s[Len(s)]) THEN RStrip(SubSeq(s, 1, Len(s) - 1)) ELSE s

Strip(s) == RStrip(LStrip(s))

EndsWith(s, suffix) ==
    /\ Len(s) >= Len(suffix)
    /\ SubSeq(s, Len(s) - Len(suffix) + 1, Len(s)) = suffix

DotPy == <<".", "p", "y">>
DotJs == <<".", "j", "s">>
QuitToken == <<"q", "u", "i", "t">>

\* --------------------------------------------------------------- providers
\* Provider locators that the callers hand to the client.
PathA == <<"a", ".", "p", "y">>          \* provider A, advertises get_time
PathB == <<"b", ".", "j", "s">>          \* provider B, advertises get_weather
PathTxt == <<"c", ".", "t", "x", "t">>   \* unsupported suffix
PathNoDot == <<"d", "p", "y">>           \* ends in py, not in .py

Locators == {PathA, PathB, PathTxt, PathNoDot}

Tool(n, d, s) == [name |-> n, description |-> d, inputSchema |-> s]

ToolTime == Tool("get_time", "current time", "schema_time")
ToolWeather == Tool("get_weather", "weather of a city", "schema_weather")
ToolForecast == Tool("get_forecast", "forecast of a city", "schema_forecast")
ToolDate == Tool("get_date", "current date", "schema_date")

\* ------------------------------------------------------------------- state
VARIABLES
    client,         \* "multi" | "weather": which program
    driver,         \* "main" | "api": who calls the client's methods
    argv,           \* sys.argv[1:], the locators given at launch
    pc,             \* position of the single control flow
    k,              \* connect_to_servers: index of the locator being connected
    j,              \* index of the session whose list_tools is awaited
    path,           \* connect_to_server: its server_script_path
    sessions,       \* multi: self.sessions, connection ids in append order
    session,        \* weather: self.session (NoSession = None); multi: Unset
    exit_stack,     \* self.exit_stack: registered exit callbacks, last = top
    connPath,       \* locator of each connection id opened so far
    opened,         \* every transport / session resource ever entered
    closeLog,       \* resources in the order their exit callback ran
    initialized,    \* connection ids whose initialize() returned
    spawns,         \* stdio_client enters attempted (subprocess spawns)
    attempts,       \* locators connect_to_server was called with, in order
    pending,        \* exception travelling through main's finally / aclose
    lastExc,        \* last exception reported by chat_loop or seen by the caller
    exitKind,       \* how main ended: "running" | "usage" | "ok" | exception
    cleanups,       \* cleanup() calls made so far
    cleanupsInRow,  \* cleanup() calls completed since the last connect_to_server call
    messages,       \* process_query: its local history
    available_tools,\* process_query: translated aggregate catalog
    response,       \* process_query: last model response
    firstResponse,  \* the first model response of the running process_query
    call,           \* the selected call of the latest response, once decoded
    calls,          \* call_tool requests sent during the running process_query
    modelCalls,     \* model-backend calls of the running process_query
    returned,       \* return value of the last completed process_query
    queries,        \* process_query calls started
    fetched,        \* process_query: the descriptors its list_tools calls returned
    constructed,    \* main: MCPClient() has been constructed
    lastInput,      \* chat_loop: the raw line the last input() returned
    catalogVersion, \* providers: 0 = catalogs as at launch, 1 = after a change
    inflight,       \* process_query: requests sent and still awaited, oldest first
    tasks,          \* concurrent process_query invocations: the locals of each
    histories,      \* concurrent process_query invocations: each one's messages
    requests        \* model requests made by concurrent invocations

vars == <<client, driver, argv, pc, k, j, path, sessions, session, exit_stack,
          connPath, opened, closeLog, initialized, spawns, attempts, pending,
          lastExc, exitKind, cleanups, cleanupsInRow, messages,
          available_tools, response, firstResponse, call, calls, modelCalls,
          returned, queries, fetched, constructed, lastInput, catalogVersion,
          inflight, tasks, histories, requests>>

connVars == <<sessions, session, exit_stack, connPath, opened, initialized,
              spawns, attempts>>
taskVars == <<tasks, histories, requests>>
queryVars == <<messages, available_tools, response, firstResponse, call, calls,
               modelCalls, returned, fetched, inflight>>

\* The catalog a provider answers list_tools with.  Provider A advertises
\* one more tool once its catalog has changed.
ProviderCatalog(locator) ==
    CASE locator = PathA -> IF catalogVersion = 0 THEN <<ToolTime>>
                            ELSE <<ToolTime, ToolDate>>
      [] locator = PathB -> <<ToolWeather, ToolForecast>>
      [] OTHER -> <<>>

NoSession == 0      \* weather: self.session = None
Unset == 99         \* multi: the attribute self.session does not exist
NoValue == [t |-> "none"]

Transport(id) == [kind |-> "transport", id |-> id]
Session(id) == [kind |-> "session", id |-> id]

ConnectPcs == {"cs_check", "cs_transport", "cs_session", "cs_init", "cs_list",
               "cts_next", "cts_list"}
QueryPcs == {"pq_list", "pq_model", "pq_dispatch", "pq_await"}


\* Sequences over S of length at most n.
SeqsUpTo(S, n) == UNION {[1..m -> S] : m \in 0..n}

RECURSIVE Reverse(_)
Reverse(s) == IF s = <<>> THEN <<>> ELSE Append(Reverse(Tail(s)), Head(s))

Range(s) == {s[i] : i \in 1..Len(s)}

\* The process_query invocations a caller may run concurrently on one client.
Tasks == {1, 2}

\* An invocation that has not started.
NoTask == [pc |-> "none", tools |-> <<>>, turns |-> 0, fn |-> NoValue,
           call |-> NoValue, returned |-> NoValue, exc |-> "none"]

Init ==
    /\ client \in {"multi", "weather"}
    /\ driver \in {"main", "api"}
    /\ argv \in IF driver = "api" THEN {<<>>}
                ELSE IF client = "multi" THEN SeqsUpTo(Locators, MaxConnects)
                ELSE SeqsUpTo(Locators, 1)   \* weather reads sys.argv[1] only
    /\ pc = IF driver = "main" THEN "main_start" ELSE "idle"
    /\ k = 1
    /\ j = 1
    /\ path = <<>>
    /\ sessions = <<>>
    /\ session = IF client = "weather" THEN NoSession ELSE Unset
    /\ exit_stack = <<>>
    /\ connPath = <<>>
    /\ opened = {}
    /\ closeLog = <<>>
    /\ initialized = {}
    /\ spawns = 0
    /\ attempts = <<>>
    /\ pending = "none"
    /\ lastExc = "none"
    /\ exitKind = "running"
    /\ cleanups = 0
    /\ cleanupsInRow = 0
    /\ messages = <<>>
    /\ available_tools = <<>>
    /\ response = NoValue
    /\ firstResponse = NoValue
    /\ call = NoValue
    /\ calls = <<>>
    /\ modelCalls = 0
    /\ returned = NoValue
    /\ queries = 0
    /\ fetched = <<>>
    /\ constructed = (driver = "api")
    /\ lastInput = <<>>
    /\ catalogVersion = 0
    /\ inflight = <<>>
    /\ tasks = [t \in Tasks |-> NoTask]
    /\ histories = [t \in Tasks |-> <<>>]
    /\ requests = {}

\* ------------------------------------------------------ exception routing
\* Mutants of MainHandler: main() without its `finally`, and a
\* connect_to_servers that swallows a connect error and goes on connecting.
MainHandler_NoFinally(p, kind) ==
    IF p \in QueryPcs \cup {"chat_input"} /\ kind # "Interrupt"
    THEN "chat_input"
    ELSE "exited"

MainHandler_SkipFailed(p, kind) ==
    IF p \in QueryPcs \cup {"chat_input"} /\ kind # "Interrupt"
    THEN "chat_input"
    ELSE IF p \in ConnectPcs /\ kind # "Interrupt" THEN "cts_next"
    ELSE "cleanup"

\* Mutant of MainHandler: chat_loop without its `except Exception`.
MainHandler_Fatal(p, kind) == "cleanup"

\* Mutant of MainHandler: a failed handshake is swallowed and connecting
\* goes on to the listing.
MainHandler_InitIgnored(p, kind) ==
    IF p \in QueryPcs \cup {"chat_input"} /\ kind # "Interrupt"
    THEN "chat_input"
    ELSE IF p = "cs_init" /\ kind # "Interrupt" THEN "cs_list"
    ELSE "cleanup"

\* Mutant of MainHandler: input() is outside chat_loop's try.
MainHandler_InputFatal(p, kind) ==
    IF p \in QueryPcs /\ kind # "Interrupt" THEN "chat_input" ELSE "cleanup"

\* Where an exception of `kind` raised at position p of main()'s try body
\* travels: chat_loop's `except Exception` catches every Exception raised
\* while reading or processing a query; everything else (an error while
\* connecting, KeyboardInterrupt / cancellation anywhere) reaches main's
\* `finally`, which calls cleanup().
MainHandler(p, kind) ==
    IF p \in QueryPcs \cup {"chat_input"} /\ kind # "Interrupt"
    THEN "chat_input"
    ELSE "cleanup"

\* The exception `kind` is raised at the current position.
Raise(kind) ==
    IF driver = "api"
    THEN /\ pc' = "idle"
         /\ lastExc' = kind
         /\ UNCHANGED <<pending, cleanups, cleanupsInRow, exitKind>>
    ELSE LET h == MainHandler(pc, kind) IN
         /\ pc' = h
         /\ UNCHANGED exitKind
         /\ IF h = "cleanup"
            THEN /\ pending' = kind
                 /\ cleanups' = cleanups + 1
                 /\ UNCHANGED <<lastExc, cleanupsInRow>>
            ELSE /\ lastExc' = kind
                 /\ UNCHANGED <<pending, cleanups, cleanupsInRow>>

NoRaise == UNCHANGED <<pending, lastExc, cleanups, cleanupsInRow, exitKind>>

\* A session can answer a request only after its handshake and before its
\* exit callbacks ran.
CanServe(id) ==
    /\ id \in initialized
    /\ Session(id) \notin Range(closeLog)
    /\ Transport(id) \notin Range(closeLog)

\* ------------------------------------------------------------------- main
\* Mutant of MissingLocator: the script name is not counted.
MissingLocator_OffByOne(args) == Len(<<"client.py">> \o args) < 1

\* len(sys.argv) < 2, with sys.argv = [script name] + args
MissingLocator(args) == Len(<<"client.py">> \o args) < 2

\* main(): the argv check and the construction of the client.
MainStart ==
    /\ pc = "main_start"
    /\ IF MissingLocator(argv)
       THEN /\ pc' = "exited"
            /\ exitKind' = "usage"
            /\ UNCHANGED <<k, path, attempts, pending, lastExc, cleanups,
                           cleanupsInRow>>
       ELSE IF client = "multi"
       THEN /\ pc' = "cts_next"
            /\ k' = 1
            /\ UNCHANGED <<path, attempts>>
            /\ NoRaise
       ELSE IF Len(argv) >= 1
       THEN /\ pc' = "cs_check"
            /\ path' = argv[1]
            /\ attempts' = Append(attempts, argv[1])
            /\ UNCHANGED k
            /\ NoRaise
       ELSE /\ Raise("IndexError")     \* sys.argv[1] of a list without it
            /\ UNCHANGED <<k, path, attempts>>
    /\ constructed' = ~MissingLocator(argv)
    /\ UNCHANGED <<client, driver, argv, lastInput, catalogVersion, j, sessions,
                   session, exit_stack, connPath, opened, closeLog, initialized,
                   spawns, queries>>
    /\ UNCHANGED queryVars
    /\ UNCHANGED taskVars

\* connect_to_servers: the head of `for server_script_path in ...`.
CtsNext ==
    /\ pc = "cts_next"
    /\ IF k <= Len(argv)
       THEN /\ pc' = "cs_check"
            /\ path' = argv[k]
            /\ attempts' = Append(attempts, argv[k])
            /\ UNCHANGED j
       ELSE /\ pc' = "cts_list"
            /\ j' = 1
            /\ UNCHANGED <<path, attempts>>
    /\ NoRaise
    /\ UNCHANGED <<client, driver, argv, constructed, lastInput, catalogVersion, k, sessions, session, exit_stack,
                   connPath, opened, closeLog, initialized, spawns, queries>>
    /\ UNCHANGED queryVars
    /\ UNCHANGED taskVars

\* Where control continues when connect_to_server returns normally.
AfterConnect ==
    IF driver = "api" THEN "idle"
    ELSE IF client = "multi" THEN "cts_next" ELSE "chat_input"

\* connect_to_servers: the listing loop after all connects.
CtsList ==
    /\ pc = "cts_list"
    /\ \/ /\ j <= Len(sessions)
          /\ CanServe(sessions[j])
          /\ j' = j + 1
          /\ pc' = pc
          /\ NoRaise
       \/ /\ j <= Len(sessions)
          /\ Raise("ListError")
          /\ UNCHANGED j
       \/ /\ j > Len(sessions)
          /\ pc' = "chat_input"
          /\ NoRaise
          /\ UNCHANGED j
    /\ UNCHANGED <<client, driver, argv, constructed, lastInput, catalogVersion, k, path, queries>>
    /\ UNCHANGED connVars
    /\ UNCHANGED closeLog
    /\ UNCHANGED queryVars
    /\ UNCHANGED taskVars

\* ------------------------------------------------------ connect_to_server
\* Mutant of SupportedSuffix: the dot of the suffix is not required.
SupportedSuffix_NoDot(p) == EndsWith(p, <<"p", "y">>) \/ EndsWith(p, <<"j", "s">>)

SupportedSuffix(p) == EndsWith(p, DotPy) \/ EndsWith(p, DotJs)

CsCheck ==
    /\ pc = "cs_check"
    /\ IF ~SupportedSuffix(path)
       THEN Raise("ValueError")
       ELSE pc' = "cs_transport" /\ NoRaise
    /\ UNCHANGED <<client, driver, argv, constructed, lastInput, catalogVersion, k, j, path, queries, closeLog>>
    /\ UNCHANGED connVars
    /\ UNCHANGED queryVars
    /\ UNCHANGED taskVars

\* enter_async_context(stdio_client(...)): the provider process is spawned.
CsTransport ==
    /\ pc = "cs_transport"
    /\ spawns' = spawns + 1
    /\ \/ LET id == Len(connPath) + 1 IN
          /\ connPath' = Append(connPath, path)
          /\ opened' = opened \cup {Transport(id)}
          /\ exit_stack' = Append(exit_stack, Transport(id))
          /\ pc' = "cs_session"
          /\ NoRaise
       \/ /\ Raise("SpawnError")
          /\ UNCHANGED <<connPath, opened, exit_stack>>
    /\ UNCHANGED <<client, driver, argv, constructed, lastInput, catalogVersion, k, j, path, sessions, session,
                   closeLog, initialized, attempts, queries>>
    /\ UNCHANGED queryVars
    /\ UNCHANGED taskVars

\* enter_async_context(ClientSession(...)) and the store of the session.
CsSession ==
    /\ pc = "cs_session"
    /\ \/ LET id == Len(connPath) IN
          /\ opened' = opened \cup {Session(id)}
          /\ exit_stack' = Append(exit_stack, Session(id))
          /\ IF client = "multi"
             THEN sessions' = Append(sessions, id) /\ UNCHANGED session
             ELSE session' = id /\ UNCHANGED sessions
          /\ pc' = "cs_init"
          /\ NoRaise
       \/ /\ Raise("SessionError")
          /\ UNCHANGED <<opened, exit_stack, sessions, session>>
    /\ UNCHANGED <<client, driver, argv, constructed, lastInput, catalogVersion, k, j, path, connPath, closeLog,
                   initialized, spawns, attempts, queries>>
    /\ UNCHANGED queryVars
    /\ UNCHANGED taskVars

\* The session the handshake runs on: self.sessions[-1] / self.session.
LastSession == IF client = "multi" THEN sessions[Len(sessions)] ELSE session

CsInit ==
    /\ pc = "cs_init"
    /\ \/ /\ initialized' = initialized \cup {LastSession}
          /\ pc' = "cs_list"
          /\ j' = 1
          /\ NoRaise
       \/ /\ Raise("InitError")
          /\ UNCHANGED <<initialized, j>>
    /\ UNCHANGED <<client, driver, argv, constructed, lastInput, catalogVersion, k, path, sessions, session,
                   exit_stack, connPath, opened, closeLog, spawns, attempts,
                   queries>>
    /\ UNCHANGED queryVars
    /\ UNCHANGED taskVars

\* The sessions whose catalog the client lists: every element of
\* self.sessions, or the one self.session.
ListTargets == IF client = "multi" THEN sessions ELSE <<session>>

CsList ==
    /\ pc = "cs_list"
    /\ \/ /\ j <= Len(ListTargets)
          /\ CanServe(ListTargets[j])
          /\ j' = j + 1
          /\ pc' = pc
          /\ UNCHANGED k
          /\ NoRaise
       \/ /\ j <= Len(ListTargets)
          /\ Raise("ListError")
          /\ UNCHANGED <<j, k>>
       \/ /\ j > Len(ListTargets)
          /\ pc' = AfterConnect
          /\ k' = IF driver = "main" /\ client = "multi" THEN k + 1 ELSE k
          /\ NoRaise
          /\ UNCHANGED j
    /\ UNCHANGED <<client, driver, argv, constructed, lastInput, catalogVersion, path, queries, closeLog>>
    /\ UNCHANGED connVars
    /\ UNCHANGED queryVars
    /\ UNCHANGED taskVars

\* ---------------------------------------------------------------- cleanup
\* Mutant of StackAfterClose: the callbacks are run but stay registered.
StackAfterClose_Keep(stack) == stack

\* AsyncExitStack.aclose(): the callbacks still registered are popped and
\* run, last registered first; the stack is empty afterwards.
StackAfterClose(stack) == <<>>

\* Mutant of ClosedBy: the callbacks run in registration order.
ClosedBy_Fifo(stack) == stack

\* The order in which aclose runs the callbacks: last registered first.
ClosedBy(stack) == Reverse(stack)

\* cleanup(): await self.exit_stack.aclose().  A callback that raises does
\* not stop the remaining callbacks; the exception is re-raised at the end.
Cleanup ==
    /\ pc = "cleanup"
    /\ closeLog' = closeLog \o ClosedBy(exit_stack)
    /\ exit_stack' = StackAfterClose(exit_stack)
    /\ cleanupsInRow' = cleanupsInRow + 1
    /\ \E raises \in IF exit_stack = <<>> THEN {FALSE} ELSE {FALSE, TRUE} :
          LET out == IF raises THEN "CloseError" ELSE pending IN
          IF driver = "main"
          THEN /\ pc' = "exited"
               /\ exitKind' = IF out = "none" THEN "ok" ELSE out
               /\ pending' = out
               /\ UNCHANGED lastExc
          ELSE /\ pc' = "idle"
               /\ lastExc' = out
               /\ pending' = "none"
               /\ UNCHANGED exitKind
    /\ UNCHANGED <<client, driver, argv, constructed, lastInput, catalogVersion, k, j, path, sessions, session,
                   connPath, opened, initialized, spawns, attempts, cleanups,
                   queries>>
    /\ UNCHANGED queryVars
    /\ UNCHANGED taskVars

\* External cancellation (Ctrl-C) while main() is inside its try body.
Interrupt ==
    /\ driver = "main"
    /\ pc \in ConnectPcs \cup QueryPcs \cup {"chat_input"}
    /\ Raise("Interrupt")
    /\ UNCHANGED <<client, driver, argv, constructed, lastInput, catalogVersion, k, j, path, queries, closeLog>>
    /\ UNCHANGED connVars
    /\ UNCHANGED queryVars
    /\ UNCHANGED taskVars

\* ------------------------------------------------- model backend values
\* Values are tagged so that a string, a mapping and an absent key stay apart.
StrVal(x) == [t |-> "str", v |-> x]
MapVal(x) == [t |-> "map", v |-> x]
NumVal(x) == [t |-> "num", v |-> x]
Absent == [t |-> "absent", v |-> ""]
NoneVal == [t |-> "None", v |-> ""]
EmptyMap == MapVal("")

\* json.loads on the values the model backend can put in `arguments`.
JsonLoads(a) ==
    IF a.t # "str" THEN [err |-> "TypeError", val |-> a]
    ELSE CASE a.v = "{}" -> [err |-> "none", val |-> EmptyMap]
           [] a.v = "{\"city\": \"Pune\"}" -> [err |-> "none", val |-> MapVal("city=Pune")]
           [] a.v = "7" -> [err |-> "none", val |-> NumVal("7")]
           [] OTHER -> [err |-> "JSONDecodeError", val |-> a]

\* call.get("arguments", "{}")
GetArguments(fn) == IF fn.arguments = Absent THEN StrVal("{}") ELSE fn.arguments

\* The try / except around json.loads(tool_args).
DecodeArgs(a) ==
    LET r == JsonLoads(a) IN
    CASE r.err = "none" -> r.val
      [] r.err = "JSONDecodeError" -> EmptyMap
      [] OTHER -> a

Request(n, a) == [name |-> n, arguments |-> a]

ReqWeatherJson == Request("get_weather", StrVal("{\"city\": \"Pune\"}"))
ReqWeatherBad == Request("get_weather", StrVal("not-json"))
ReqTimeMap == Request("get_time", MapVal("tz=UTC"))
ReqUnknown == Request("no_such_tool", StrVal("{}"))
ReqTimeNoArgs == Request("get_time", Absent)

ToolCallLists ==
    {<<ReqWeatherJson>>, <<ReqWeatherBad>>, <<ReqTimeMap>>, <<ReqUnknown>>,
     <<ReqTimeNoArgs>>, <<ReqWeatherJson, ReqTimeMap>>,
     <<ReqTimeMap, ReqWeatherBad>>}

Response(c, tc) == [content |-> c, tool_calls |-> tc]

\* tool_calls: the key absent, None, or a list.
FinalResponses ==
    {Response(c, tc) : c \in {Absent, StrVal(""), StrVal("answer")},
                       tc \in {Absent, NoneVal, [t |-> "list", v |-> <<>>]}}
ToolResponses == {Response(StrVal(""), [t |-> "list", v |-> l]) : l \in ToolCallLists}

\* tool_calls = response.message.get("tool_calls") or []
ToolCallsOf(resp) == IF resp.tool_calls.t = "list" THEN resp.tool_calls.v ELSE <<>>

\* Mutant of FinalContent: the default is returned whatever the content.
FinalContent_Default(resp) == StrVal("")

\* response.get("message", {}).get("content", "")
FinalContent(resp) == IF resp.content = Absent THEN StrVal("") ELSE resp.content

\* call = tool_calls[0].function
SelectCall(tool_calls) == tool_calls[1]

\* convert_tools_format
\* Mutant of convert_tools_format: the entries come out in reverse order.
convert_tools_format_Reversed(tools) ==
    [i \in 1..Len(tools) |->
        [type |-> "function",
         function |-> [name |-> tools[Len(tools) + 1 - i].name,
                       description |-> tools[Len(tools) + 1 - i].description,
                       parameters |-> tools[Len(tools) + 1 - i].inputSchema]]]

RECURSIVE convert_tools_format(_)
convert_tools_format(tools) ==
    IF tools = <<>> THEN <<>>
    ELSE <<[type |-> "function",
            function |-> [name |-> Head(tools).name,
                          description |-> Head(tools).description,
                          parameters |-> Head(tools).inputSchema]]>>
         \o convert_tools_format(Tail(tools))

CatalogNames(id) ==
    {ProviderCatalog(connPath[id])[i].name : i \in 1..Len(ProviderCatalog(connPath[id]))}

\* What the provider behind connection c.conn can answer a call_tool with:
\* a tool it does not have yields an error result, a tool it has can succeed
\* or fail inside the provider (an error result).
ToolResults(c) ==
    IF ~CanServe(c.conn) THEN {}
    ELSE {[conn |-> c.conn, tool |-> c.name, args |-> c.args, isError |-> e] :
            e \in IF c.name \in CatalogNames(c.conn) THEN {FALSE, TRUE} ELSE {TRUE}}

\* str(result)
Str(x) == [t |-> "str", of |-> x]

UserMessage(q) == [role |-> "user", content |-> q]
ToolMessage(n, c) == [role |-> "tool", name |-> n, content |-> c]

\* ---------------------------------------------------------- process_query
AfterQuery == IF driver = "main" THEN "chat_input" ELSE "idle"

\* The entry of process_query(query): the local history and tool list.
StartQuery(q) ==
    /\ messages' = <<UserMessage(q)>>
    /\ available_tools' = <<>>
    /\ j' = 1
    /\ response' = NoValue
    /\ firstResponse' = NoValue
    /\ call' = NoValue
    /\ calls' = <<>>
    /\ modelCalls' = 0
    /\ returned' = NoValue
    /\ queries' = queries + 1
    /\ fetched' = <<>>
    /\ inflight' = <<>>
    /\ pc' = "pq_list"

\* Mutant of Complete: the loop goes on without the request having completed.
Complete_Forget(reqs, kind) == reqs

\* `await` returns or raises: the oldest outstanding request of that kind
\* ("model": ollama chat, "tool": session.call_tool) is no longer awaited.
Complete(reqs, kind) ==
    IF \A i \in 1..Len(reqs) : reqs[i] # kind THEN reqs
    ELSE LET i == CHOOSE n \in 1..Len(reqs) :
                     /\ reqs[n] = kind
                     /\ \A m \in 1..(n - 1) : reqs[m] # kind
         IN SubSeq(reqs, 1, i - 1) \o SubSeq(reqs, i + 1, Len(reqs))

\* The request of an awaited call is sent.
Send(reqs, kind) == Append(reqs, kind)

\* Mutant of ExtendTools: the list is assigned instead of extended.
ExtendTools_Assign(tools, more) == more

\* available_tools.extend(...)
ExtendTools(tools, more) == tools \o more

\* The list_tools loop before the turn loop.
PqList ==
    /\ pc = "pq_list"
    /\ \/ /\ j <= Len(ListTargets)
          /\ CanServe(ListTargets[j])
          /\ LET tools == ProviderCatalog(connPath[ListTargets[j]]) IN
             /\ available_tools' =
                    ExtendTools(available_tools, convert_tools_format(tools))
             /\ fetched' = fetched \o tools
          /\ j' = j + 1
          /\ pc' = pc
          /\ NoRaise
          /\ UNCHANGED inflight
       \/ /\ j <= Len(ListTargets)
          /\ Raise(IF ListTargets[j] = NoSession THEN "AttributeError" ELSE "ListError")
          /\ UNCHANGED <<available_tools, fetched, j, inflight>>
       \/ /\ j > Len(ListTargets)
          /\ pc' = "pq_model"
          /\ inflight' = Send(inflight, "model")
          /\ NoRaise
          /\ UNCHANGED <<available_tools, fetched, j>>
    /\ UNCHANGED <<client, driver, argv, constructed, lastInput, catalogVersion, k, path, queries, closeLog, messages,
                   response, firstResponse, call, calls, modelCalls, returned>>
    /\ UNCHANGED connVars
    /\ UNCHANGED taskVars

\* Mutant of HistoryAfterResponse: the model's response is appended as an
\* assistant message.
HistoryAfterResponse_Assistant(msgs, resp) ==
    Append(msgs, [role |-> "assistant", content |-> resp.content])

\* Nothing is appended to messages between the model call and the dispatch.
HistoryAfterResponse(msgs, resp) == msgs

\* One model-backend call and the inspection of its response.
PqModel ==
    /\ pc = "pq_model"
    /\ \/ \E resp \in ToolResponses :
             /\ modelCalls < MaxTurns
             /\ response' = resp
             /\ firstResponse' = IF modelCalls = 0 THEN resp ELSE firstResponse
             /\ modelCalls' = modelCalls + 1
             /\ pc' = IF ToolCallsOf(resp) # <<>> THEN "pq_dispatch" ELSE AfterQuery
             /\ returned' = IF ToolCallsOf(resp) # <<>> THEN returned ELSE FinalContent(resp)
             /\ messages' = HistoryAfterResponse(messages, resp)
             /\ NoRaise
       \/ \E resp \in FinalResponses :
             /\ response' = resp
             /\ firstResponse' = IF modelCalls = 0 THEN resp ELSE firstResponse
             /\ modelCalls' = modelCalls + 1
             /\ pc' = IF ToolCallsOf(resp) # <<>> THEN "pq_dispatch" ELSE AfterQuery
             /\ returned' = IF ToolCallsOf(resp) # <<>> THEN returned ELSE FinalContent(resp)
             /\ messages' = HistoryAfterResponse(messages, resp)
             /\ NoRaise
       \/ /\ Raise("BackendError")
          /\ UNCHANGED <<response, firstResponse, modelCalls, returned, messages>>
    /\ call' = NoValue
    /\ inflight' = Complete(inflight, "model")
    /\ UNCHANGED <<client, driver, argv, constructed, lastInput, catalogVersion,
                   k, j, path, queries, closeLog, available_tools, calls,
                   fetched>>
    /\ UNCHANGED connVars
    /\ UNCHANGED taskVars

\* The session that `self.session` evaluates to at the dispatch.
DispatchTarget == session

\* Selection of the tool call, decoding of its arguments, and the start of
\* `await self.session.call_tool(tool_name, tool_args)`.
PqDispatch ==
    /\ pc = "pq_dispatch"
    /\ LET fn == SelectCall(ToolCallsOf(response))
           c == [name |-> fn.name, args |-> DecodeArgs(GetArguments(fn))] IN
       /\ call' = c
       /\ IF DispatchTarget \in {Unset, NoSession}
          THEN /\ Raise("AttributeError")
               /\ UNCHANGED <<calls, inflight>>
          ELSE /\ calls' = Append(calls, [conn |-> DispatchTarget, name |-> c.name,
                                          args |-> c.args])
               /\ inflight' = Send(inflight, "tool")
               /\ pc' = "pq_await"
               /\ NoRaise
    /\ UNCHANGED <<client, driver, argv, constructed, lastInput, catalogVersion,
                   k, j, path, queries, closeLog, messages, available_tools,
                   response, firstResponse, modelCalls, returned, fetched>>
    /\ UNCHANGED connVars
    /\ UNCHANGED taskVars

\* Mutant of AppendMessage: the tool message replaces the history.
AppendMessage_Replace(msgs, m) == <<m>>

\* messages.append(...)
AppendMessage(msgs, m) == Append(msgs, m)

\* Mutant of LoopContinues: a cap of one dispatching turn.
LoopContinues_Capped(turns) == turns < 1

\* `while True:` after `turns` model calls
LoopContinues(turns) == TRUE

\* Mutant of ToolsAfterTurn: the catalogs are listed again after each turn.
ToolsAfterTurn_Refetch(tools) ==
    IF ListTargets = <<>> THEN <<>>
    ELSE convert_tools_format(ProviderCatalog(connPath[ListTargets[1]]))

\* The body of the turn loop never rebinds available_tools.
ToolsAfterTurn(tools) == tools

\* Mutant of StackAfterTurn: a turn drops the registered exit callbacks.
StackAfterTurn_Drop(stack) == <<>>

\* The body of the turn loop never touches self.exit_stack.
StackAfterTurn(stack) == stack

\* The completion of call_tool, the append of the tool message and the
\* return to the head of the loop.  call_tool raises when the provider or
\* the protocol reports an error, or when the connection has died.
PqAwait ==
    /\ pc = "pq_await"
    /\ \/ \E res \in ToolResults(calls[Len(calls)]) :
             /\ messages' = AppendMessage(messages, ToolMessage(call.name, Str(res)))
             /\ IF LoopContinues(modelCalls)
                THEN /\ pc' = "pq_model"
                     /\ inflight' = Send(Complete(inflight, "tool"), "model")
                     /\ NoRaise
                ELSE /\ Raise("TooManyTurns")
                     /\ inflight' = Complete(inflight, "tool")
       \/ \E kind \in {"ToolError", "ConnectionClosed"} :
             /\ Raise(kind)
             /\ inflight' = Complete(inflight, "tool")
             /\ UNCHANGED messages
    /\ available_tools' = ToolsAfterTurn(available_tools)
    /\ UNCHANGED <<client, driver, argv, constructed, lastInput, catalogVersion,
                   k, j, path, queries, closeLog, response, firstResponse, call,
                   calls, modelCalls, returned, fetched>>
    /\ exit_stack' = StackAfterTurn(exit_stack)
    /\ UNCHANGED <<sessions, session, connPath, opened, initialized, spawns,
                   attempts>>
    /\ UNCHANGED taskVars

\* A provider changes the catalog it advertises while it executes a tool.
CatalogChange ==
    /\ pc = "pq_await"
    /\ catalogVersion = 0
    /\ catalogVersion' = 1
    /\ UNCHANGED <<client, driver, argv, constructed, lastInput, pc, k, j, path,
                   queries, closeLog, pending, lastExc, exitKind, cleanups,
                   cleanupsInRow>>
    /\ UNCHANGED connVars
    /\ UNCHANGED queryVars
    /\ UNCHANGED taskVars

\* -------------------------------------------------------------- chat_loop
Inputs == {<<"q", "u", "i", "t">>, <<" ", "Q", "u", "i", "T", " ">>, <<"h", "i", " ">>}

\* Mutant of IsQuit: the comparison is case sensitive.
IsQuit_CaseSensitive(query) == query = QuitToken

\* query.lower() == 'quit'
IsQuit(query) == LowerSeq(query) = QuitToken

\* One iteration of chat_loop up to the call of process_query.
ChatInput ==
    /\ pc = "chat_input"
    /\ \/ \E inp \in Inputs :
             LET query == Strip(inp) IN
             /\ lastInput' = inp
             /\ IF IsQuit(query)
                THEN /\ pc' = "cleanup"
                     /\ cleanups' = cleanups + 1
                     /\ UNCHANGED <<pending, lastExc, cleanupsInRow, exitKind,
                                    j, queries>>
                     /\ UNCHANGED queryVars
                ELSE /\ queries < MaxQueries
                     /\ StartQuery(query)
                     /\ NoRaise
       \/ /\ Raise("InputError")
          /\ UNCHANGED <<j, queries, lastInput>>
          /\ UNCHANGED queryVars
    /\ UNCHANGED <<client, driver, argv, constructed, catalogVersion, k, path,
                   closeLog>>
    /\ UNCHANGED connVars
    /\ UNCHANGED taskVars

\* ------------------------------------------- direct calls of the methods
ApiConnect ==
    /\ driver = "api"
    /\ pc = "idle"
    /\ Len(attempts) < MaxConnects
    /\ \E p \in Locators :
          /\ path' = p
          /\ attempts' = Append(attempts, p)
    /\ pc' = "cs_check"
    /\ cleanupsInRow' = 0
    /\ UNCHANGED <<client, driver, argv, constructed, lastInput, catalogVersion, k, j, sessions, session, exit_stack,
                   connPath, opened, closeLog, initialized, spawns, pending,
                   lastExc, exitKind, cleanups, queries>>
    /\ UNCHANGED queryVars
    /\ UNCHANGED taskVars

ApiCleanup ==
    /\ driver = "api"
    /\ pc = "idle"
    /\ cleanups < MaxCleanups
    /\ pc' = "cleanup"
    /\ cleanups' = cleanups + 1
    /\ UNCHANGED <<client, driver, argv, constructed, lastInput, catalogVersion, k, j, path, closeLog, pending, lastExc,
                   exitKind, cleanupsInRow, queries>>
    /\ UNCHANGED connVars
    /\ UNCHANGED queryVars
    /\ UNCHANGED taskVars

Next ==
    \/ MainStart
    \/ CtsNext
    \/ CtsList
    \/ CsCheck
    \/ CsTransport
    \/ CsSession
    \/ CsInit
    \/ CsList
    \/ Cleanup
    \/ Interrupt
    \/ PqList
    \/ PqModel
    \/ PqDispatch
    \/ PqAwait
    \/ CatalogChange
    \/ ChatInput
    \/ ApiConnect
    \/ ApiCleanup

Spec == Init /\ [][Next]_vars

TypeOK ==
    /\ client \in {"multi", "weather"}
    /\ driver \in {"main", "api"}
    /\ pc \in ConnectPcs \cup QueryPcs \cup
              {"main_start", "chat_input", "cleanup", "exited", "idle"}

\* ================================================================= claims
Supported(p) == EndsWith(p, DotPy) \/ EndsWith(p, DotJs)

AllClosed == \A r \in opened : r \in Range(closeLog)

Occurrences(log, r) == Cardinality({i \in 1..Len(log) : log[i] = r})

\* The sessions of self.sessions that advertise the tool name n.
Owners(n) == {id \in Range(sessions) : n \in CatalogNames(id)}

\* The tool calls of the latest model response, read from its raw fields.
RawToolCalls == IF response = NoValue \/ response.tool_calls.t # "list"
                THEN <<>> ELSE response.tool_calls.v

\* The dispatch code has run for the latest model response.
DispatchActed == RawToolCalls # <<>> /\ call # NoValue

\* C1: in the multi-provider client, every tool call that process_query
\* dispatches for a tool name advertised by a connected provider is sent as
\* a call_tool request to a connection that advertises that name (never to
\* another one), and once the turn is complete the history ends with the
\* tool-result message of that name carrying that connection's output.
C1_DispatchOnOwner ==
    (client = "multi" /\ DispatchActed /\ Owners(call.name) # {})
    => /\ calls # <<>>
       /\ calls[Len(calls)].name = call.name
       /\ calls[Len(calls)].conn \in Owners(call.name)
       /\ pc = "pq_model"
            => /\ messages[Len(messages)].role = "tool"
               /\ messages[Len(messages)].name = call.name
               /\ messages[Len(messages)].content.of.conn \in Owners(call.name)

\* C2: when the first model response of a process_query call has no tool
\* calls, the call has ended after exactly one model-backend call and no
\* tool invocation, and its return value is that response's content field.
C2_NoToolCallsOneRoundTrip ==
    (firstResponse # NoValue
       /\ (firstResponse.tool_calls.t # "list" \/ firstResponse.tool_calls.v = <<>>))
    => /\ modelCalls = 1
       /\ calls = <<>>
       /\ pc \notin QueryPcs
       /\ messages = <<messages[1]>>
       /\ firstResponse.content # Absent => returned = firstResponse.content

C2_Witness ==
    /\ pc = "chat_input"
    /\ queries = 1
    /\ firstResponse # NoValue
    /\ firstResponse.tool_calls = Absent
    /\ firstResponse.content = StrVal("answer")
    /\ returned = StrVal("answer")
    /\ modelCalls = 1

\* A string that is not a JSON text.
NotJsonText(a) == a.t = "str" /\ a.v \notin {"{}", "{\"city\": \"Pune\"}", "7"}

\* C3: when the selected tool call's arguments are a string that is not
\* valid JSON, the dispatch sends the call_tool request with an empty
\* mapping as arguments (it does not raise).
C3_BadJsonEmptyMapping ==
    (DispatchActed
       /\ NotJsonText(RawToolCalls[1].arguments))
    => /\ Len(calls) = modelCalls
       /\ calls[Len(calls)].name = RawToolCalls[1].name
       /\ calls[Len(calls)].args = EmptyMap

\* C4: a tool invocation that ends, other than by cancellation, always ends
\* with a tool-result message for that tool appended to the history and the
\* turn loop back at the next model call: a failing invocation is fed back,
\* it does not abort process_query.
C4_ToolFailureFedBack ==
    [][(pc = "pq_await" /\ pc' # "cleanup")
       => /\ pc' = "pq_model"
          /\ Len(messages') = Len(messages) + 1
          /\ messages'[Len(messages')].role = "tool"
          /\ messages'[Len(messages')].name = call.name]_vars

\* C5: once the client has been constructed in main, every transport and
\* session that a connect call opened has been closed when main has exited,
\* whatever ended main: quit, an error, or an interrupt at any point.
C5_MainReleasesAll ==
    (driver = "main" /\ pc = "exited" /\ exitKind # "usage")
    => AllClosed /\ exit_stack = <<>>

\* main was interrupted in the middle of a tool call, with resources open.
C5_Witness ==
    /\ driver = "main"
    /\ pc = "exited"
    /\ exitKind = "Interrupt"
    /\ calls # <<>>
    /\ Len(messages) = 1
    /\ lastExc = "none"
    /\ Cardinality(opened) = 2
    /\ AllClosed

\* C6: a cleanup() that follows another cleanup() with no connect in
\* between does not raise and closes nothing again; no resource is ever
\* closed more than once.
C6_CleanupIdempotent ==
    [][/\ (pc = "cleanup" /\ cleanupsInRow >= 1)
          => /\ closeLog' = closeLog
             /\ exit_stack' = <<>>
             /\ pc' = "idle"
             /\ lastExc' = "none"
       /\ \A r \in opened' : Occurrences(closeLog', r) <= 1]_vars

C6_Witness ==
    /\ driver = "api"
    /\ pc = "idle"
    /\ cleanupsInRow = 2
    /\ Cardinality(opened) = 4
    /\ Len(closeLog) = 4
    /\ lastExc = "none"

\* C7: connect_to_server with a locator that ends neither in .py nor in .js
\* raises the validation error at its first step: no subprocess is spawned,
\* no transport or session is opened, nothing is pushed on the exit stack
\* and the stored sessions are unchanged.
C7_UnsupportedSuffixFailsFast ==
    [][(pc = "cs_check" /\ ~Supported(path))
       => /\ spawns' = spawns
          /\ opened' = opened
          /\ exit_stack' = exit_stack
          /\ sessions' = sessions
          /\ session' = session
          /\ connPath' = connPath
          /\ IF driver = "api"
             THEN pc' = "idle" /\ lastExc' = "ValueError"
             ELSE pc' = "cleanup" /\ pending' \in {"ValueError", "Interrupt"}]_vars

C7_Witness ==
    /\ driver = "api"
    /\ pc = "idle"
    /\ attempts = <<PathA, PathTxt>>
    /\ lastExc = "ValueError"
    /\ spawns = 1
    /\ Cardinality(opened) = 2
    /\ exit_stack = <<Transport(1), Session(1)>>

\* C8: in main of the multi-provider client, connect_to_servers attempts the
\* providers one after another in argv order, each only after the previous
\* connect completed; a failure while connecting leads to no further
\* attempt, reaches main's cleanup as the pending error, and main exits
\* with an error and with everything opened so far closed.
C8_SequentialConnectAbort ==
    [][(client = "multi" /\ driver = "main")
       => /\ Len(attempts') <= Len(argv)
          /\ attempts' = SubSeq(argv, 1, Len(attempts'))
          /\ attempts' # attempts
               => /\ pc = "cts_next"
                  /\ pending = "none"
                  /\ Len(attempts') = Len(attempts) + 1
                  /\ Len(sessions) = Len(attempts)
                  /\ initialized = Range(sessions)
          /\ (pc \in ConnectPcs /\ pc' \notin ConnectPcs \cup {"chat_input"})
               => pc' = "cleanup" /\ pending' # "none"
          /\ (pc = "cleanup" /\ pending # "none")
               => /\ pc' = "exited"
                  /\ exitKind' \notin {"ok", "running", "usage"}
                  /\ attempts' = attempts
                  /\ \A r \in opened' : r \in Range(closeLog')]_vars

\* The second of two providers failed its handshake; the first was torn down.
C8_Witness ==
    /\ client = "multi"
    /\ driver = "main"
    /\ pc = "exited"
    /\ argv = <<PathA, PathB>>
    /\ attempts = argv
    /\ exitKind = "InitError"
    /\ Cardinality(opened) = 4
    /\ AllClosed
    /\ queries = 0

\* C9: when a model response holds several tool-call requests, the turn
\* makes exactly one tool invocation, that of the first request, and a
\* completed turn has added exactly one tool-result message, named after
\* the first request.
C9_OnlyFirstToolCall ==
    (DispatchActed /\ Len(RawToolCalls) > 1)
    => /\ Len(calls) = modelCalls
       /\ calls[Len(calls)].name = RawToolCalls[1].name
       /\ pc = "pq_model"
            => /\ Len(messages) = 1 + modelCalls
               /\ messages[Len(messages)].name = RawToolCalls[1].name

\* C10: the dispatch of a tool name that no connected provider advertises
\* never leaves process_query by an exception: it ends with a tool-result
\* message appended and the loop back at the next model call.
C10_UnknownToolFedBack ==
    [][(/\ pc \in {"pq_dispatch", "pq_await"}
        /\ \A id \in 1..Len(connPath) : RawToolCalls[1].name \notin CatalogNames(id)
        /\ pc' # "cleanup")
       => \/ pc' = "pq_await"
          \/ /\ pc' = "pq_model"
             /\ Len(messages') = Len(messages) + 1
             /\ messages'[Len(messages')].role = "tool"]_vars

\* A step of main's chat loop in which list_tools or call_tool raised an
\* Exception inside process_query (the provider failed or its connection
\* died).
ProviderFailureStep ==
    /\ driver = "main"
    /\ pc \in {"pq_list", "pq_await"}
    /\ pc' \notin QueryPcs
    /\ pending' # "Interrupt"

\* C11 (as stated): when a provider call fails inside process_query because
\* the connection died, the failure ends the conversation and control goes
\* to cleanup, which releases the connection resources.
C11_ProviderDeathTriggersCleanup ==
    [][ProviderFailureStep => pc' = "cleanup"]_vars

\* C11 (amended): a provider failure inside process_query ends that query
\* only: it is caught and recorded by chat_loop, which goes on to read the
\* next query; no cleanup runs and every connection resource stays held.
C11_ProviderDeathAbortsQueryOnly ==
    [][ProviderFailureStep
       => /\ pc' = "chat_input"
          /\ lastExc' \in {"ListError", "ToolError", "ConnectionClosed",
                           "AttributeError"}
          /\ returned' = NoValue
          /\ cleanups' = cleanups
          /\ closeLog' = closeLog
          /\ exit_stack' = exit_stack
          /\ sessions' = sessions
          /\ session' = session]_vars

\* The connection died during a tool call; the loop reads on, nothing closed.
C11_Witness ==
    /\ driver = "main"
    /\ pc = "chat_input"
    /\ lastExc = "ConnectionClosed"
    /\ calls # <<>>
    /\ exit_stack # <<>>
    /\ closeLog = <<>>
    /\ cleanups = 0

\* C12: main started without a provider locator ends with the usage error
\* before any connection attempt: no client object, no connect attempt, no
\* subprocess, no session, no open resource, no cleanup.
C12_NoLocatorExitsBeforeConnect ==
    (driver = "main" /\ argv = <<>> /\ pc # "main_start")
    => /\ pc = "exited"
       /\ exitKind = "usage"
       /\ ~constructed
       /\ attempts = <<>>
       /\ spawns = 0
       /\ sessions = <<>>
       /\ opened = {}
       /\ cleanups = 0

C12_Witness ==
    /\ driver = "main"
    /\ argv = <<>>
    /\ pc = "exited"
    /\ exitKind = "usage"
    /\ ~constructed

\* The input read in this step is quit once trimmed and lower-cased.
ReadsQuit == LowerSeq(Strip(lastInput')) = QuitToken

\* C13: in the chat loop an input that is quit after trimming and ignoring
\* case ends the loop without a process_query call; any other input starts
\* process_query with the trimmed text; an Exception raised by process_query
\* is caught and recorded and the loop reads the next query.
C13_ChatLoopQuitAndCatch ==
    [][/\ (pc = "chat_input" /\ lastInput' # lastInput)
          => IF ReadsQuit
             THEN /\ pc' = "cleanup"
                  /\ pending' = "none"
                  /\ queries' = queries
                  /\ modelCalls' = modelCalls
                  /\ messages' = messages
             ELSE /\ pc' = "pq_list"
                  /\ queries' = queries + 1
                  /\ messages' = <<UserMessage(Strip(lastInput'))>>
       /\ (pc = "chat_input" /\ queries' # queries) => ~ReadsQuit
       /\ (pc = "chat_input" /\ pc' = "cleanup" /\ pending' # "Interrupt")
          => ReadsQuit
       /\ (driver = "main" /\ pc \in QueryPcs /\ pending' # "Interrupt")
          => /\ pc' \in QueryPcs \cup {"chat_input"}
             /\ cleanups' = cleanups
             /\ (pc' = "chat_input" /\ returned' = NoValue)
                => lastExc' # "none"]_vars

\* " QuiT " ended the loop after an earlier query had failed and been
\* recorded.
C13_Witness ==
    /\ lastInput = <<" ", "Q", "u", "i", "T", " ">>
    /\ pc = "cleanup"
    /\ pending = "none"
    /\ queries = 1
    /\ lastExc = "BackendError"

\* C14: convert_tools_format keeps length and order: entry i of its result
\* has type "function" and the name, description and parameters of
\* descriptor i (its name, description and inputSchema), for every
\* descriptor sequence that list_tools handed to it.
C14_ConvertPreservesCatalog ==
    /\ Len(available_tools) = Len(fetched)
    /\ \A i \in 1..Len(fetched) :
          i <= Len(available_tools)
          => available_tools[i] =
                [type |-> "function",
                 function |-> [name |-> fetched[i].name,
                               description |-> fetched[i].description,
                               parameters |-> fetched[i].inputSchema]]

\* Three different descriptors were converted.
C14_Witness ==
    /\ pc = "pq_model"
    /\ fetched = <<ToolTime, ToolWeather, ToolForecast>>
    /\ Len(available_tools) = 3
    /\ available_tools[3].function.parameters = "schema_forecast"

\* The catalogs of the given connections, one after the other.
RECURSIVE CatalogsInOrder(_)
CatalogsInOrder(ids) ==
    IF ids = <<>> THEN <<>>
    ELSE ProviderCatalog(connPath[Head(ids)]) \o CatalogsInOrder(Tail(ids))

RECURSIVE SumOfCatalogLengths(_)
SumOfCatalogLengths(ids) ==
    IF ids = <<>> THEN 0
    ELSE Len(ProviderCatalog(connPath[Head(ids)])) + SumOfCatalogLengths(Tail(ids))

\* No tool name is advertised by two of the connections.
DisjointNames(ids) ==
    \A a, b \in 1..Len(ids) :
        a # b => CatalogNames(ids[a]) \cap CatalogNames(ids[b]) = {}

\* C15: when the connected providers advertise disjoint tool names, the
\* tool list that process_query holds for its first model call is the
\* concatenation of the providers' catalogs in connection order, each in
\* its own order, and its length is the sum of the catalogs' lengths.
C15_AggregateIsConcatenation ==
    (pc = "pq_model" /\ modelCalls = 0 /\ DisjointNames(ListTargets))
    => /\ Len(available_tools) = SumOfCatalogLengths(ListTargets)
       /\ Len(available_tools) = Len(CatalogsInOrder(ListTargets))
       /\ \A i \in 1..Len(available_tools) :
             /\ available_tools[i].function.name =
                    CatalogsInOrder(ListTargets)[i].name
             /\ available_tools[i].function.parameters =
                    CatalogsInOrder(ListTargets)[i].inputSchema

\* Provider B connected first, provider A second.
C15_Witness ==
    /\ client = "multi"
    /\ pc = "pq_model"
    /\ modelCalls = 0
    /\ Len(sessions) = 2
    /\ connPath[sessions[1]] = PathB
    /\ connPath[sessions[2]] = PathA
    /\ Len(available_tools) = 3
    /\ available_tools[1].function.name = "get_weather"
    /\ available_tools[3].function.name = "get_time"

\* The first-connected of the connections that advertise the tool name n.
FirstOwner(n) ==
    sessions[CHOOSE i \in 1..Len(sessions) :
                /\ sessions[i] \in Owners(n)
                /\ \A m \in 1..(i - 1) : sessions[m] \notin Owners(n)]

\* C16: when two connected providers advertise the same tool name, a
\* dispatched call to that name is sent as a call_tool request to the
\* first-connected of them.
C16_FirstConnectedWins ==
    (client = "multi" /\ DispatchActed /\ Cardinality(Owners(call.name)) >= 2)
    => /\ calls # <<>>
       /\ calls[Len(calls)].name = call.name
       /\ calls[Len(calls)].conn = FirstOwner(call.name)

\* C17: within one process_query call control moves only from the model
\* call either to the return (response without tool calls) or to the
\* dispatch (response with tool calls) and from there, after the invocation
\* and the append of its result, back to the model call; after the return
\* nothing of the query runs again; every model call finds the results of
\* all earlier invocations appended.  Exceptions abort the call.
C17_ControlStates ==
    [][/\ (pc = "pq_model" /\ pc' \in QueryPcs)
          => /\ pc' = "pq_dispatch"
             /\ RawToolCalls' # <<>>
             /\ returned' = NoValue
       /\ (pc = "pq_model" /\ returned' # NoValue)
          => /\ pc' \notin QueryPcs
             /\ RawToolCalls' = <<>>
             /\ modelCalls' = modelCalls + 1
       /\ (pc = "pq_dispatch" /\ pc' \in QueryPcs)
          => /\ pc' = "pq_await"
             /\ Len(calls') = Len(calls) + 1
             /\ messages' = messages
       /\ (pc = "pq_await" /\ pc' \in QueryPcs /\ pc' # pc)
          => /\ pc' = "pq_model"
             /\ Len(messages') = Len(messages) + 1
             /\ messages'[Len(messages')].role = "tool"
             /\ calls' = calls
       /\ (pc \in {"pq_list", "pq_dispatch", "pq_await"})
          => /\ returned' = NoValue
             /\ modelCalls' = modelCalls
       /\ (pc = "pq_model" /\ modelCalls' # modelCalls)
          => /\ modelCalls' = modelCalls + 1
             /\ Len(calls) = modelCalls
             /\ Len(messages) = 1 + modelCalls
       /\ (pc \notin QueryPcs)
          => /\ returned' = returned \/ returned' = NoValue
             /\ modelCalls' = modelCalls \/ modelCalls' = 0
             /\ pc' \in QueryPcs => (pc' = "pq_list" /\ queries' = queries + 1)]_vars

\* One full cycle: model call, dispatch, result appended, back at the model
\* call.
C17_Witness ==
    /\ pc = "pq_model"
    /\ modelCalls = 1
    /\ Len(calls) = 1
    /\ Len(messages) = 2
    /\ messages[2].role = "tool"

\* C18: process_query has no turn cap: after every completed tool
\* invocation, whatever the number of turns so far, the loop goes back to
\* the model call; the call returns only on a response without tool calls,
\* and no too-many-turns error is ever raised.
C18_NoTurnCap ==
    [][/\ (pc = "pq_await" /\ messages' # messages) => pc' = "pq_model"
       /\ (pc \in QueryPcs /\ returned' # NoValue)
          => /\ pc = "pq_model"
             /\ RawToolCalls' = <<>>
       /\ lastExc' # "TooManyTurns"
       /\ pending' # "TooManyTurns"]_vars

\* Two dispatching turns are complete and the loop is at the model call
\* again.
C18_Witness ==
    /\ pc = "pq_model"
    /\ modelCalls = 2
    /\ Len(calls) = 2
    /\ Len(messages) = 3
    /\ returned = NoValue

\* C19 (as stated): the tool list sent with a model call after a
\* dispatching turn is the translation of the providers' catalogs as they
\* are at that moment.
C19_CatalogRefetchedEachTurn ==
    (pc = "pq_model" /\ modelCalls > 0)
    => available_tools = convert_tools_format(CatalogsInOrder(ListTargets))

\* C19 (amended): the catalogs are listed once per process_query call,
\* before its first model call; the turn loop never changes the tool list,
\* so every model call of the query is sent the list built at its start,
\* whatever the providers advertise by then.
C19_CatalogFetchedOncePerQuery ==
    [][/\ (pc = "pq_model" /\ modelCalls = 0)
          => fetched = CatalogsInOrder(ListTargets)
       /\ (pc \in {"pq_model", "pq_dispatch", "pq_await"})
          => /\ available_tools = convert_tools_format(fetched)
             /\ pc' \in QueryPcs => /\ available_tools' = available_tools
                                    /\ fetched' = fetched]_vars

\* Provider A advertises a second tool since the first turn; the list held
\* for the second model call still has one entry.
C19_Witness ==
    /\ client = "weather"
    /\ pc = "pq_model"
    /\ modelCalls = 1
    /\ catalogVersion = 1
    /\ CatalogsInOrder(ListTargets) = <<ToolTime, ToolDate>>
    /\ fetched = <<ToolTime>>
    /\ Len(available_tools) = 1

\* C20: every dispatching turn makes the invocation of the requested tool
\* and, when it returns, appends exactly one tool message named after the
\* requested tool with the stringified result; the history only grows at
\* its end, and the model call after k dispatching turns finds the user
\* message followed by k tool messages.
C20_DispatchAppendsOneResult ==
    [][/\ (pc = "pq_dispatch" /\ pending' # "Interrupt")
          => /\ pc' = "pq_await"
             /\ Len(calls') = Len(calls) + 1
             /\ calls'[Len(calls')].name = RawToolCalls[1].name
       /\ (pc = "pq_await" /\ pc' = "pq_model")
          => /\ Len(messages') = Len(messages) + 1
             /\ SubSeq(messages', 1, Len(messages)) = messages
             /\ messages'[Len(messages')].role = "tool"
             /\ messages'[Len(messages')].name = RawToolCalls[1].name
             /\ messages'[Len(messages')].content.t = "str"
       /\ (pc \in {"pq_model", "pq_dispatch", "pq_await"} /\ messages' # messages)
          => \/ pc = "pq_await" /\ pc' = "pq_model"
             \/ pc' = "pq_list"
       /\ (pc = "pq_model" /\ modelCalls' = modelCalls + 1)
          => /\ Len(messages) = 1 + modelCalls
             /\ messages[1].role = "user"
             /\ \A i \in 2..Len(messages) : messages[i].role = "tool"]_vars

\* C21: within one process_query call at most one request is outstanding at
\* any instant: the model call while control waits for the model, the tool
\* invocation while control waits for the tool, and none in between; the
\* loop advances only when the awaited request has completed.
C21_OneOutstandingRequest ==
    /\ Len(inflight) <= 1
    /\ pc = "pq_model" => inflight = <<"model">>
    /\ pc = "pq_await" => inflight = <<"tool">>
    /\ pc \in {"pq_list", "pq_dispatch"} => inflight = <<>>

\* The second tool invocation is awaited; the model calls before it have
\* completed.
C21_Witness ==
    /\ pc = "pq_await"
    /\ modelCalls = 2
    /\ Len(calls) = 2
    /\ inflight = <<"tool">>

\* C23: the client's connection state (self.sessions / self.session and the
\* exit stack) changes only in the steps of connect_to_server that open a
\* transport or a session and in cleanup; reading a query, process_query
\* and every step of its turn loop leave it as it is.
C23_ConnectionStateStable ==
    [][/\ (sessions' # sessions \/ session' # session \/ exit_stack' # exit_stack)
          => pc \in {"cs_transport", "cs_session", "cleanup"}
       /\ (pc \in QueryPcs \cup {"chat_input"})
          => /\ sessions' = sessions
             /\ session' = session
             /\ exit_stack' = exit_stack
             /\ connPath' = connPath
             /\ initialized' = initialized
             /\ opened' = opened]_vars

\* A query with one tool invocation has returned; the connection is as
\* connect_to_server left it.
C23_Witness ==
    /\ client = "weather"
    /\ pc = "chat_input"
    /\ returned = StrVal("answer")
    /\ Len(calls) = 1
    /\ session = 1
    /\ exit_stack = <<Transport(1), Session(1)>>
    /\ closeLog = <<>>

\* The stack holds the resources in the order they were opened: connections
\* in connection order, each connection's transport before its session.
OpeningOrder(stack) ==
    \A a, b \in 1..Len(stack) :
        a < b => \/ stack[a].id < stack[b].id
                 \/ /\ stack[a].id = stack[b].id
                    /\ stack[a].kind = "transport"
                    /\ stack[b].kind = "session"

\* C24: a cleanup call closes the resources still registered in the reverse
\* of the order they were opened: of two resources the later-opened is
\* closed first, so a connection's session is closed before its transport
\* and a later connection is fully released before an earlier one.
C24_CleanupClosesLifo ==
    [][/\ OpeningOrder(exit_stack)
       /\ pc = "cleanup"
          => LET n == Len(exit_stack)
                 base == Len(closeLog) IN
             /\ Len(closeLog') = base + n
             /\ SubSeq(closeLog', 1, base) = closeLog
             /\ \A a \in 1..n : closeLog'[base + n + 1 - a] = exit_stack[a]
             /\ \A x, y \in (base + 1)..(base + n) :
                   x < y => \/ closeLog'[x].id > closeLog'[y].id
                            \/ /\ closeLog'[x].id = closeLog'[y].id
                               /\ closeLog'[x].kind = "session"
                               /\ closeLog'[y].kind = "transport"]_vars

\* Two connections were closed by one cleanup call.
C24_Witness ==
    /\ driver = "main"
    /\ pc = "exited"
    /\ exitKind = "ok"
    /\ closeLog = <<Session(2), Transport(2), Session(1), Transport(1)>>
    /\ exit_stack = <<>>

\* C25: the history of process_query never holds an assistant message: it
\* is the user message followed by tool-result messages only, also after a
\* model response that requested a tool.
C25_NoAssistantMessage ==
    /\ \A i \in 1..Len(messages) : messages[i].role # "assistant"
    /\ pc \in QueryPcs
       => /\ Len(messages) >= 1
          /\ messages[1].role = "user"
          /\ \A i \in 2..Len(messages) : messages[i].role = "tool"

\* The second model response requested a tool; the history holds the user
\* message and the first tool result, nothing of the model's.
C25_Witness ==
    /\ pc = "pq_dispatch"
    /\ modelCalls = 2
    /\ RawToolCalls # <<>>
    /\ Len(messages) = 2
    /\ messages[2].role = "tool"

\* C26: in the main flow every session that list_tools or call_tool is
\* invoked on has completed its handshake: wherever the client lists tools
\* (in connect_to_server, connect_to_servers, process_query), reads a query
\* or runs the turn loop, every session it holds is initialized, and so is
\* the target of every call_tool request; a session is in the client before
\* its handshake only while that handshake is running.
C26_OnlyInitializedSessionsUsed ==
    driver = "main"
    => /\ (pc \in {"cs_list", "cts_list", "chat_input"} \cup QueryPcs)
          => \A i \in 1..Len(ListTargets) : ListTargets[i] \in initialized
       /\ \A i \in 1..Len(calls) : calls[i].conn \in initialized
       /\ \A i \in 1..Len(ListTargets) :
             (ListTargets[i] # NoSession /\ ListTargets[i] \notin initialized)
             => /\ i = Len(ListTargets)
                /\ pc \in {"cs_init", "cleanup", "exited"}

\* A call_tool request is outstanding on the initialized session whose
\* tools were listed.
C26_Witness ==
    /\ driver = "main"
    /\ pc = "pq_await"
    /\ fetched # <<>>
    /\ Len(calls) = 1
    /\ calls[1].conn = session
    /\ session \in initialized

\* The arguments of the first tool call of the latest response, as the
\* model sent them.
RawArguments == RawToolCalls[1].arguments

\* C27: the call_tool request of a dispatch carries the model's arguments
\* unchanged when they are a mapping and the decoded value when they are a
\* valid JSON string; it carries the empty mapping in place of the model's
\* arguments only when they are a string that does not decode.
C27_ArgumentsPassThrough ==
    (DispatchActed /\ RawArguments # Absent)
    => /\ Len(calls) = modelCalls
       /\ calls[Len(calls)].name = RawToolCalls[1].name
       /\ RawArguments.t = "map" => calls[Len(calls)].args = RawArguments
       /\ RawArguments = StrVal("{\"city\": \"Pune\"}")
             => calls[Len(calls)].args = MapVal("city=Pune")
       /\ RawArguments = StrVal("{}") => calls[Len(calls)].args = EmptyMap
       /\ (calls[Len(calls)].args = EmptyMap /\ RawArguments # StrVal("{}"))
             => NotJsonText(RawArguments)

\* Positions inside chat_loop.
ChatPcs == QueryPcs \cup {"chat_input"}

\* C28: main's chat loop is left only by the quit token or by an interrupt
\* (KeyboardInterrupt / cancellation): an exception raised by input() is
\* caught like a query error, recorded, and the loop reads again with
\* nothing closed, as often as input() fails.
C28_LoopEndsOnlyOnQuitOrInterrupt ==
    [][/\ (driver = "main" /\ pc \in ChatPcs /\ pc' \notin ChatPcs)
          => /\ pc' = "cleanup"
             /\ \/ pending' = "Interrupt"
                \/ /\ pc = "chat_input"
                   /\ pending' = "none"
                   /\ ReadsQuit
       /\ (pc = "chat_input" /\ lastExc # "InputError" /\ lastExc' = "InputError")
          => /\ pc' = "chat_input"
             /\ cleanups' = cleanups
             /\ closeLog' = closeLog
             /\ exit_stack' = exit_stack
             /\ queries' = queries]_vars

\* input() failed after a completed query; the loop is reading again.
C28_Witness ==
    /\ driver = "main"
    /\ pc = "chat_input"
    /\ lastExc = "InputError"
    /\ queries = 1
    /\ returned # NoValue
    /\ exitKind = "running"
    /\ cleanups = 0
    /\ exit_stack # <<>>

\* ------------------------- concurrent invocations of process_query (api)
\* A caller that holds a connected client runs up to two process_query
\* invocations on it, interleaved at will (one after the other included).
\* `messages`, `available_tools`, `response`, `call` are locals of
\* process_query: each invocation has its own.

mainVars == <<client, driver, argv, pc, k, j, path, sessions, session,
              exit_stack, connPath, opened, closeLog, initialized, spawns,
              attempts, pending, lastExc, exitKind, cleanups, cleanupsInRow,
              messages, available_tools, response, firstResponse, call, calls,
              modelCalls, returned, queries, fetched, constructed, lastInput,
              catalogVersion, inflight>>

\* The state after one successful connect_to_server(a.py) called directly.
InitTasks ==
    /\ client \in {"multi", "weather"}
    /\ driver = "api"
    /\ argv = <<>>
    /\ pc = "idle"
    /\ k = 1
    /\ j = 2
    /\ path = PathA
    /\ sessions = IF client = "multi" THEN <<1>> ELSE <<>>
    /\ session = IF client = "weather" THEN 1 ELSE Unset
    /\ exit_stack = <<Transport(1), Session(1)>>
    /\ connPath = <<PathA>>
    /\ opened = {Transport(1), Session(1)}
    /\ closeLog = <<>>
    /\ initialized = {1}
    /\ spawns = 1
    /\ attempts = <<PathA>>
    /\ pending = "none"
    /\ lastExc = "none"
    /\ exitKind = "running"
    /\ cleanups = 0
    /\ cleanupsInRow = 0
    /\ messages = <<>>
    /\ available_tools = <<>>
    /\ response = NoValue
    /\ firstResponse = NoValue
    /\ call = NoValue
    /\ calls = <<>>
    /\ modelCalls = 0
    /\ returned = NoValue
    /\ queries = 0
    /\ fetched = <<>>
    /\ constructed = TRUE
    /\ lastInput = <<>>
    /\ catalogVersion = 0
    /\ inflight = <<>>
    /\ tasks = [t \in Tasks |-> NoTask]
    /\ histories = [t \in Tasks |-> <<>>]
    /\ requests = {}

\* The query text each invocation is called with.
TaskQuery(t) == IF t = 1 THEN <<"q", "1">> ELSE <<"q", "2">>

\* A message of the history of invocation t.
Owned(t, m) == [owner |-> t, msg |-> m]

\* Mutant of HistorySlot: the history is one attribute of the client, shared
\* by all invocations.
HistorySlot_Shared(t) == 1

\* `messages` is a local of process_query: one list per invocation.
HistorySlot(t) == t

\* The model responses the backend may give a concurrent invocation.
TaskResponses ==
    {Response(StrVal("answer"), Absent),
     Response(StrVal(""), [t |-> "list", v |-> <<ReqTimeMap>>])}

\* messages = [{"role": "user", "content": query}]
TaskStart(t) ==
    /\ driver = "api"
    /\ pc = "idle"
    /\ tasks[t].pc = "none"
    /\ histories' = [histories EXCEPT
                        ![HistorySlot(t)] = <<Owned(t, UserMessage(TaskQuery(t)))>>]
    /\ tasks' = [tasks EXCEPT ![t].pc = "pq_list"]
    /\ UNCHANGED <<requests, mainVars>>

\* The list_tools loop of the invocation.
TaskList(t) ==
    /\ tasks[t].pc = "pq_list"
    /\ \/ /\ \A i \in 1..Len(ListTargets) : CanServe(ListTargets[i])
          /\ tasks' = [tasks EXCEPT
                 ![t].tools = convert_tools_format(CatalogsInOrder(ListTargets)),
                 ![t].pc = "pq_model"]
       \/ tasks' = [tasks EXCEPT ![t].pc = "failed", ![t].exc = "ListError"]
    /\ UNCHANGED <<histories, requests, mainVars>>

\* One model call of the invocation with its own messages and tools.
TaskModel(t) ==
    /\ tasks[t].pc = "pq_model"
    /\ requests' = requests \cup {[task |-> t,
                                   messages |-> histories[HistorySlot(t)],
                                   tools |-> tasks[t].tools]}
    /\ \/ \E resp \in TaskResponses :
             IF ToolCallsOf(resp) # <<>>
             THEN /\ tasks[t].turns < MaxTurns
                  /\ tasks' = [tasks EXCEPT
                         ![t].pc = "pq_dispatch",
                         ![t].fn = SelectCall(ToolCallsOf(resp)),
                         ![t].turns = @ + 1]
             ELSE tasks' = [tasks EXCEPT
                         ![t].pc = "done",
                         ![t].returned = FinalContent(resp),
                         ![t].turns = @ + 1]
       \/ tasks' = [tasks EXCEPT ![t].pc = "failed", ![t].exc = "BackendError"]
    /\ UNCHANGED <<histories, mainVars>>

\* The decoding of the arguments and the start of call_tool.
TaskDispatch(t) ==
    /\ tasks[t].pc = "pq_dispatch"
    /\ LET fn == tasks[t].fn
           c == [name |-> fn.name, args |-> DecodeArgs(GetArguments(fn))] IN
       IF DispatchTarget \in {Unset, NoSession}
       THEN tasks' = [tasks EXCEPT ![t].pc = "failed",
                                   ![t].exc = "AttributeError"]
       ELSE tasks' = [tasks EXCEPT
                         ![t].pc = "pq_await",
                         ![t].call = [conn |-> DispatchTarget, name |-> c.name,
                                      args |-> c.args]]
    /\ UNCHANGED <<histories, requests, mainVars>>

\* The completion of call_tool and the append to the invocation's messages.
TaskAwait(t) ==
    /\ tasks[t].pc = "pq_await"
    /\ \/ \E res \in ToolResults(tasks[t].call) :
             /\ histories' = [histories EXCEPT
                     ![HistorySlot(t)] =
                         AppendMessage(@, Owned(t, ToolMessage(tasks[t].call.name,
                                                               Str(res))))]
             /\ tasks' = [tasks EXCEPT ![t].pc = "pq_model"]
       \/ /\ tasks' = [tasks EXCEPT ![t].pc = "failed", ![t].exc = "ToolError"]
          /\ UNCHANGED histories
    /\ UNCHANGED <<requests, mainVars>>

NextTasks ==
    \/ \E t \in Tasks : TaskStart(t)
    \/ \E t \in Tasks : TaskList(t)
    \/ \E t \in Tasks : TaskModel(t)
    \/ \E t \in Tasks : TaskDispatch(t)
    \/ \E t \in Tasks : TaskAwait(t)

SpecTasks == InitTasks /\ [][NextTasks]_vars

\* C22: every process_query invocation starts from a history that holds
\* only its own user message; a step of one invocation never writes the
\* history of another; and every model request of an invocation carries
\* only messages of that invocation, its user message first, whether the
\* invocations run one after the other or interleaved on the same client.
C22_QueriesIsolated ==
    [][/\ \A t \in Tasks :
             (tasks[t].pc = "none" /\ tasks'[t].pc = "pq_list")
             => histories'[t] = <<Owned(t, UserMessage(TaskQuery(t)))>>
       /\ \A u \in Tasks : tasks'[u] = tasks[u] => histories'[u] = histories[u]
       /\ \A r \in requests' :
             /\ Len(r.messages) >= 1
             /\ r.messages[1] = Owned(r.task, UserMessage(TaskQuery(r.task)))
             /\ \A i \in 1..Len(r.messages) : r.messages[i].owner = r.task]_vars

\* Invocation 2 made its second model request, with its own two messages,
\* while invocation 1, started first, still waits for its first tool.
C22_Witness ==
    /\ tasks[1].pc = "pq_await"
    /\ tasks[2].pc \in {"pq_dispatch", "done"}
    /\ tasks[2].turns = 2
    /\ Len(histories[1]) = 1
    /\ Len(histories[2]) = 2
    /\ \E r \in requests : r.task = 2 /\ Len(r.messages) = 2
    /\ \E r \in requests : r.task = 1 /\ Len(r.messages) = 1

=============================================================================
